---- MODULE Spec2Model ----
(***************************************************************************)
(* The transaction state-transition engine of core/state_transition.go:    *)
(* IntrinsicGas, preCheck, buyGas, TransitionDb, innerTransitionDb,        *)
(* refundGas, together with the deposit transaction of the rollup.         *)
(*                                                                         *)
(* One run of the model is one call of TransitionDb, cut into the steps    *)
(* of the source (entry, preCheck, the intrinsic-gas and transfer checks,  *)
(* the VM call, the settlement, the deposit conversion at the end).        *)
(*                                                                         *)
(* Pointers that may be nil (big.Int, common.Address, ExecutionResult)     *)
(* are sequences of length 0 or 1; errors are sequences of strings, the    *)
(* empty sequence being the nil error and fmt.Errorf("failed deposit: %w") *)
(* prepending its text to the error it wraps.                              *)
(*                                                                         *)
(* uint64 values are kept modulo 2^WordBits; balances are big.Int and are  *)
(* plain integers.                                                         *)
(***************************************************************************)
EXTENDS Integers, Sequences, FiniteSets, TLC

\* ------------------------------------------------------------------------
\* Widths and protocol parameters

\* Width of the machine word standing for uint64.
WordBits == 27

MaxUint64 == 2^WordBits - 1

Wrap64(x) == x % (MaxUint64 + 1)

TxGas == 21000

TxGasContractCreation == 53000

TxDataZeroGas == 4

TxDataNonZeroGasFrontier == 68

TxDataNonZeroGasEIP2028 == 16

InitCodeWordGas == 2

TxAccessListAddressGas == 2400

TxAccessListStorageKeyGas == 1900

MaxInitCodeSize == 49152

RefundQuotient == 2

RefundQuotientEIP3529 == 5

DataGasPerBlob == 131072

\* DepositTx.gas(): the fixed gas allowance of a deposit.
DepositGas == 100000000

\* ------------------------------------------------------------------------
\* Optional values and errors

None == << >>

Some(v) == << v >>

IsNil(p) == p = << >>

Val(p) == p[1]

NoError == << >>

ErrNonceTooHigh == << "nonce too high" >>

ErrNonceTooLow == << "nonce too low" >>

ErrNonceMax == << "nonce has max value" >>

ErrSenderNoEOA == << "sender not an eoa" >>

ErrFeeCapVeryHigh == << "max fee per gas higher than 2^256-1" >>

ErrTipVeryHigh == << "max priority fee per gas higher than 2^256-1" >>

ErrTipAboveFeeCap == << "max priority fee per gas higher than max fee per gas" >>

ErrFeeCapTooLow == << "max fee per gas less than block base fee" >>

ErrMaxFeePerDataGas == << "max fee per data gas too low" >>

ErrInternalFailure == << "internal failure" >>

ErrInsufficientFunds == << "insufficient funds for gas * price + value" >>

ErrGasLimitReached == << "gas limit reached" >>

ErrDataGasLimitReached == << "data gas limit reached" >>

ErrGasUintOverflow == << "gas uint64 overflow" >>

ErrIntrinsicGas == << "intrinsic gas too low" >>

ErrInsufficientFundsForTransfer == << "insufficient funds for transfer" >>

ErrMaxInitCodeSizeExceeded == << "max initcode size exceeded" >>

ErrExecutionReverted == << "execution reverted" >>

ErrOutOfGas == << "out of gas" >>

\* fmt.Errorf("failed deposit: %w", err)
FailedDeposit(err) == << "failed deposit" >> \o err

\* ------------------------------------------------------------------------
\* IntrinsicGas

\* Mutant of toWordSize: the word size is rounded down.
toWordSize_Floor(size) == size \div 32

\* toWordSize: the ceiled word size of the init code.
toWordSize(size) ==
  IF size > MaxUint64 - 31 THEN MaxUint64 \div 32 + 1 ELSE (size + 31) \div 32

\* The access-list part of IntrinsicGas: two unchecked uint64 additions.
AccessListGas(gas, accessList) ==
  IF IsNil(accessList) THEN gas
  ELSE Wrap64(Wrap64(gas + Wrap64(Val(accessList).addresses * TxAccessListAddressGas))
              + Wrap64(Val(accessList).keys * TxAccessListStorageKeyGas))

\* data is the payload as its counts of non-zero and zero bytes; accessList
\* is nil or its counts of addresses and of storage keys.
IntrinsicGas(data, accessList, isContractCreation, isHomestead, isEIP2028, isEIP3860) ==
  LET gas0 == IF isContractCreation /\ isHomestead THEN TxGasContractCreation ELSE TxGas
      dataLen == data.nz + data.z
      nz == data.nz
      nonZeroGas == IF isEIP2028 THEN TxDataNonZeroGasEIP2028 ELSE TxDataNonZeroGasFrontier
      gas1 == gas0 + nz * nonZeroGas
      z == dataLen - nz
      gas2 == gas1 + z * TxDataZeroGas
      lenWords == toWordSize(dataLen)
      gas3 == gas2 + lenWords * InitCodeWordGas
      overflow == [gas |-> 0, err |-> ErrGasUintOverflow]
  IN IF dataLen > 0
     THEN IF (MaxUint64 - gas0) \div nonZeroGas < nz THEN overflow
          ELSE IF (MaxUint64 - gas1) \div TxDataZeroGas < z THEN overflow
          ELSE IF isContractCreation /\ isEIP3860
               THEN IF (MaxUint64 - gas2) \div InitCodeWordGas < lenWords THEN overflow
                    ELSE [gas |-> AccessListGas(gas3, accessList), err |-> NoError]
               ELSE [gas |-> AccessListGas(gas2, accessList), err |-> NoError]
     ELSE [gas |-> AccessListGas(gas0, accessList), err |-> NoError]

\* ------------------------------------------------------------------------
\* The protocol rules and the VM context of one block

\* The upgrades in their activation order (ChainConfig.Rules).
ForkRank ==
  [Frontier |-> 0, Homestead |-> 1, Istanbul |-> 2, London |-> 3,
   Shanghai |-> 4, Sharding |-> 5]

IsHomestead(env) == ForkRank[env.fork] >= ForkRank.Homestead

IsIstanbul(env) == ForkRank[env.fork] >= ForkRank.Istanbul

IsLondon(env) == ForkRank[env.fork] >= ForkRank.London

IsShanghai(env) == ForkRank[env.fork] >= ForkRank.Shanghai

IsSharding(env) == ForkRank[env.fork] >= ForkRank.Sharding

\* rules.IsOptimismBedrock with a non-nil Optimism chain config.
IsOptimismBedrock(env) == env.bedrock

\* misc.GetDataGasPrice: the data-gas price of an excess-data-gas value, at
\* least the minimum price of 1 and growing with the excess.
GetDataGasPrice(excessDataGas) == 1 + Val(excessDataGas)

\* Context.L1CostFunc(blockNumber, msg): nil for a message without rollup
\* data gas, its cost otherwise.
L1CostFunc(env, msg) ==
  IF msg.rollupDataGas = 0 THEN None ELSE Some(msg.rollupDataGas)

\* Context.CanTransfer(state, from, value)
CanTransfer(ws, addr, amount) == ws.balance[addr] >= amount

\* ------------------------------------------------------------------------
\* World state (vm.StateDB) and gas pool (GasPool)

GetBalance(ws, addr) == ws.balance[addr]

AddBalance(ws, addr, amount) == [ws EXCEPT !.balance[addr] = @ + amount]

SubBalance(ws, addr, amount) == [ws EXCEPT !.balance[addr] = @ - amount]

GetNonce(ws, addr) == ws.nonce[addr]

SetNonce(ws, addr, n) == [ws EXCEPT !.nonce[addr] = n]

GetRefund(ws) == ws.refund

\* GasPool.SubGas: fails, leaving the pool alone, when it holds less.
SubGas(gp, amount) ==
  IF gp.gas < amount THEN [gp |-> gp, err |-> ErrGasLimitReached]
  ELSE [gp |-> [gp EXCEPT !.gas = @ - amount], err |-> NoError]

\* GasPool.SubDataGas
SubDataGas(gp, amount) ==
  IF gp.dataGas < amount THEN [gp |-> gp, err |-> ErrDataGasLimitReached]
  ELSE [gp |-> [gp EXCEPT !.dataGas = @ - amount], err |-> NoError]

\* GasPool.AddGas
AddGas(gp, amount) == [gp EXCEPT !.gas = @ + amount]

\* ------------------------------------------------------------------------
\* StateTransition: st is the working state [ws, gp, gasRemaining]

\* to(): the recipient, the zero address for a contract creation.
to(msg) == IF IsNil(msg.to) THEN "zero" ELSE Val(msg.to)

gasUsed(msg, st) == Wrap64(msg.gas - st.gasRemaining)

dataGasUsed(msg) == Wrap64(msg.dataHashes * DataGasPerBlob)

\* buyGas: the L1 cost, when the context has an L1-cost function.
buyGasL1Cost(env, msg) == IF env.l1CostFunc THEN L1CostFunc(env, msg) ELSE None

\* Mutant of buyGasValue: the L1 cost is left out of the debit.
buyGasValue_NoL1Cost(env, msg) == msg.gas * msg.gasPrice

\* buyGas: mgval before the data fee is added, gas * price plus the L1 cost.
buyGasValue(env, msg) ==
  LET mgval == msg.gas * msg.gasPrice
      l1Cost == buyGasL1Cost(env, msg)
  IN IF IsNil(l1Cost) THEN mgval ELSE mgval + Val(l1Cost)

\* buyGas: the data gas bought, zero before sharding.
buyGasDataGas(env, msg) == IF IsSharding(env) THEN dataGasUsed(msg) ELSE 0

\* buyGas: dgval, the data fee.
buyGasDataValue(env, msg) ==
  IF IsSharding(env)
  THEN GetDataGasPrice(env.excessDataGas) * buyGasDataGas(env, msg)
  ELSE 0

\* Mutant of balanceRequired: only the value is asked for.
balanceRequired_ValueOnly(env, msg) == msg.value

\* buyGas: the balance the sender must hold.
balanceRequired(env, msg) ==
  LET l1Cost == buyGasL1Cost(env, msg)
      maxGasFee == msg.gas * Val(msg.gasFeeCap)
  IN IF IsNil(msg.gasFeeCap) THEN buyGasValue(env, msg)
     ELSE msg.value + buyGasDataValue(env, msg) + maxGasFee
          + (IF IsNil(l1Cost) THEN 0 ELSE Val(l1Cost))

\* Mutant of buyGas: the nil excess data gas is noticed only after the gas was
\* taken from the pool.
buyGas_LateExcessCheck(env, msg, st) ==
  LET sub == SubGas(st.gp, msg.gas)
      st1 == [st EXCEPT !.gp = sub.gp, !.gasRemaining = Wrap64(@ + msg.gas)]
      subData == SubDataGas(st1.gp, buyGasDataGas(env, msg))
      st2 == [st1 EXCEPT !.gp = subData.gp,
                         !.ws = SubBalance(st1.ws, msg.from,
                                           buyGasValue(env, msg) + buyGasDataValue(env, msg))]
  IN IF IsSharding(env) /\ IsNil(env.excessDataGas)
       THEN [st |-> [st EXCEPT !.gp = sub.gp], err |-> ErrInternalFailure]
     ELSE IF GetBalance(st.ws, msg.from) < balanceRequired(env, msg)
       THEN [st |-> st, err |-> ErrInsufficientFunds]
     ELSE IF sub.err # NoError
       THEN [st |-> st, err |-> sub.err]
     ELSE IF subData.err # NoError
       THEN [st |-> st1, err |-> subData.err]
     ELSE [st |-> st2, err |-> NoError]

buyGas(env, msg, st) ==
  LET sub == SubGas(st.gp, msg.gas)
      st1 == [st EXCEPT !.gp = sub.gp, !.gasRemaining = Wrap64(@ + msg.gas)]
      subData == SubDataGas(st1.gp, buyGasDataGas(env, msg))
      st2 == [st1 EXCEPT !.gp = subData.gp,
                         !.ws = SubBalance(st1.ws, msg.from,
                                           buyGasValue(env, msg) + buyGasDataValue(env, msg))]
  IN IF IsSharding(env) /\ IsNil(env.excessDataGas)
       THEN [st |-> st, err |-> ErrInternalFailure]
     ELSE IF GetBalance(st.ws, msg.from) < balanceRequired(env, msg)
       THEN [st |-> st, err |-> ErrInsufficientFunds]
     ELSE IF sub.err # NoError
       THEN [st |-> st, err |-> sub.err]
     ELSE IF subData.err # NoError
       THEN [st |-> st1, err |-> subData.err]
     ELSE [st |-> st2, err |-> NoError]

\* big.Int.BitLen
RECURSIVE BitLen(_)
BitLen(x) == IF x = 0 THEN 0 ELSE 1 + BitLen(x \div 2)

\* StateDB.GetCodeHash: "empty" is emptyCodeHash, "zero" is common.Hash{}.
GetCodeHash(ws, addr) == ws.codeHash[addr]

\* Mutant of preCheckSender: the sender's code is not looked at.
preCheckSender_NoCodeCheck(msg, st) ==
  LET stNonce == GetNonce(st.ws, msg.from)
      msgNonce == msg.nonce
  IN IF msg.isFake THEN NoError
     ELSE IF stNonce < msgNonce THEN ErrNonceTooHigh
     ELSE IF stNonce > msgNonce THEN ErrNonceTooLow
     ELSE IF Wrap64(stNonce + 1) < stNonce THEN ErrNonceMax
     ELSE NoError

\* preCheck, the nonce and EOA checks of a message that is not fake.
preCheckSender(msg, st) ==
  LET stNonce == GetNonce(st.ws, msg.from)
      msgNonce == msg.nonce
      codeHash == GetCodeHash(st.ws, msg.from)
  IN IF msg.isFake THEN NoError
     ELSE IF stNonce < msgNonce THEN ErrNonceTooHigh
     ELSE IF stNonce > msgNonce THEN ErrNonceTooLow
     ELSE IF Wrap64(stNonce + 1) < stNonce THEN ErrNonceMax
     ELSE IF codeHash # "empty" /\ codeHash # "zero" THEN ErrSenderNoEOA
     ELSE NoError

\* Mutant of preCheckFees: the fee cap is not compared with the base fee.
preCheckFees_NoBaseFeeCheck(env, msg) ==
  LET gasFeeCap == Val(msg.gasFeeCap)
      gasTipCap == Val(msg.gasTipCap)
  IN IF ~IsLondon(env) THEN NoError
     ELSE IF ~(~env.noBaseFee \/ BitLen(gasFeeCap) > 0 \/ BitLen(gasTipCap) > 0)
       THEN NoError
     ELSE IF BitLen(gasFeeCap) > 256 THEN ErrFeeCapVeryHigh
     ELSE IF BitLen(gasTipCap) > 256 THEN ErrTipVeryHigh
     ELSE IF gasFeeCap < gasTipCap THEN ErrTipAboveFeeCap
     ELSE NoError

\* preCheck, the fee-market checks once London is active.
preCheckFees(env, msg) ==
  LET gasFeeCap == Val(msg.gasFeeCap)
      gasTipCap == Val(msg.gasTipCap)
  IN IF ~IsLondon(env) THEN NoError
     ELSE IF ~(~env.noBaseFee \/ BitLen(gasFeeCap) > 0 \/ BitLen(gasTipCap) > 0)
       THEN NoError
     ELSE IF BitLen(gasFeeCap) > 256 THEN ErrFeeCapVeryHigh
     ELSE IF BitLen(gasTipCap) > 256 THEN ErrTipVeryHigh
     ELSE IF gasFeeCap < gasTipCap THEN ErrTipAboveFeeCap
     ELSE IF gasFeeCap < env.baseFee THEN ErrFeeCapTooLow
     ELSE NoError

\* A panic of the Go runtime in place of a returned error: TransitionDb does
\* not return.
Panic == << "panic" >>

\* misc.GetDataGasPrice as preCheck calls it, with no nil check of the excess
\* data gas: nil when the call panics, the price otherwise.
DataGasPriceOf(env) ==
  IF IsNil(env.excessDataGas) THEN env.dataGasPriceOfNil
  ELSE Some(GetDataGasPrice(env.excessDataGas))

\* preCheck, the data-gas price check once sharding is active.
preCheckDataGas(env, msg) ==
  IF dataGasUsed(msg) > 0 /\ IsSharding(env)
  THEN IF IsNil(DataGasPriceOf(env)) THEN Panic
       ELSE IF Val(DataGasPriceOf(env)) > Val(msg.maxFeePerDataGas)
       THEN ErrMaxFeePerDataGas ELSE NoError
  ELSE NoError

\* Mutant of preCheckDeposit: a system transaction takes its gas from the pool
\* like any deposit.
preCheckDeposit_AlwaysSubGas(msg, st) ==
  LET st1 == [st EXCEPT !.gasRemaining = Wrap64(@ + msg.gas)]
      sub == SubGas(st1.gp, msg.gas)
  IN [st |-> [st1 EXCEPT !.gp = sub.gp], err |-> sub.err]

\* Mutant of preCheckDeposit: no deposit takes its gas from the pool.
preCheckDeposit_NeverSubGas(msg, st) ==
  [st |-> [st EXCEPT !.gasRemaining = Wrap64(@ + msg.gas)], err |-> NoError]

\* preCheck, the deposit branch: free gas, taken from the pool unless the
\* deposit is a system transaction.
preCheckDeposit(msg, st) ==
  LET st1 == [st EXCEPT !.gasRemaining = Wrap64(@ + msg.gas)]
      sub == SubGas(st1.gp, msg.gas)
  IN IF msg.isSystemTx THEN [st |-> st1, err |-> NoError]
     ELSE [st |-> [st1 EXCEPT !.gp = sub.gp], err |-> sub.err]

preCheck(env, msg, st) ==
  IF msg.isDepositTx THEN preCheckDeposit(msg, st)
  ELSE IF preCheckSender(msg, st) # NoError
    THEN [st |-> st, err |-> preCheckSender(msg, st)]
  ELSE IF preCheckFees(env, msg) # NoError
    THEN [st |-> st, err |-> preCheckFees(env, msg)]
  ELSE IF preCheckDataGas(env, msg) # NoError
    THEN [st |-> st, err |-> preCheckDataGas(env, msg)]
  ELSE buyGas(env, msg, st)

\* Mutant of refundGas: the refund counter is applied without the cap.
refundGas_NoCap(msg, st, refundQuotient) ==
  LET refund == GetRefund(st.ws)
      rem == Wrap64(st.gasRemaining + refund)
      remaining == rem * msg.gasPrice
  IN [st EXCEPT !.gasRemaining = rem,
                !.ws = AddBalance(@, msg.from, remaining),
                !.gp = AddGas(@, rem)]

\* Mutant of refundGas: the remaining gas is not returned to the block's pool.
refundGas_NoPoolReturn(msg, st, refundQuotient) ==
  LET capped == gasUsed(msg, st) \div refundQuotient
      refund == IF capped > GetRefund(st.ws) THEN GetRefund(st.ws) ELSE capped
      rem == Wrap64(st.gasRemaining + refund)
      remaining == rem * msg.gasPrice
  IN [st EXCEPT !.gasRemaining = rem,
                !.ws = AddBalance(@, msg.from, remaining)]

\* Mutant of refundGas: the capped share is given whatever the counter holds.
refundGas_IgnoresCounter(msg, st, refundQuotient) ==
  LET refund == gasUsed(msg, st) \div refundQuotient
      rem == Wrap64(st.gasRemaining + refund)
      remaining == rem * msg.gasPrice
  IN [st EXCEPT !.gasRemaining = rem,
                !.ws = AddBalance(@, msg.from, remaining),
                !.gp = AddGas(@, rem)]

refundGas(msg, st, refundQuotient) ==
  LET capped == gasUsed(msg, st) \div refundQuotient
      refund == IF capped > GetRefund(st.ws) THEN GetRefund(st.ws) ELSE capped
      rem == Wrap64(st.gasRemaining + refund)
      remaining == rem * msg.gasPrice
  IN [st EXCEPT !.gasRemaining = rem,
                !.ws = AddBalance(@, msg.from, remaining),
                !.gp = AddGas(@, rem)]

\* Mutant of effectiveTip: the tip cap is paid whatever the base fee leaves.
effectiveTip_IgnoresBaseFee(env, msg) ==
  IF IsLondon(env) THEN Val(msg.gasTipCap) ELSE msg.gasPrice

\* innerTransitionDb: the tip per gas paid to the coinbase.
effectiveTip(env, msg) ==
  LET tip == Val(msg.gasTipCap)
      room == Val(msg.gasFeeCap) - env.baseFee
  IN IF IsLondon(env) THEN (IF tip < room THEN tip ELSE room) ELSE msg.gasPrice

\* innerTransitionDb: the coinbase is not paid when base-fee enforcement is off
\* and both fee fields are zero.
skipsFeePayment(env, msg) ==
  env.noBaseFee /\ Val(msg.gasFeeCap) = 0 /\ Val(msg.gasTipCap) = 0

\* Mutant of settleFees: the base fee is not paid to its recipient.
settleFees_NoBaseFeeCredit(env, msg, st) ==
  LET quotient == IF ~IsLondon(env) THEN RefundQuotient ELSE RefundQuotientEIP3529
      st1 == refundGas(msg, st, quotient)
      fee == gasUsed(msg, st1) * effectiveTip(env, msg)
      ws2 == IF skipsFeePayment(env, msg) THEN st1.ws
             ELSE AddBalance(st1.ws, "coinbase", fee)
      cost == L1CostFunc(env, msg)
      ws4 == IF IsNil(cost) THEN ws2 ELSE AddBalance(ws2, "l1fee", Val(cost))
  IN [st1 EXCEPT !.ws = IF IsOptimismBedrock(env) THEN ws4 ELSE ws2]

\* innerTransitionDb from the refund to the rollup surcharge, for a message
\* that is not a deposit.
settleFees(env, msg, st) ==
  LET quotient == IF ~IsLondon(env) THEN RefundQuotient ELSE RefundQuotientEIP3529
      st1 == refundGas(msg, st, quotient)
      fee == gasUsed(msg, st1) * effectiveTip(env, msg)
      ws2 == IF skipsFeePayment(env, msg) THEN st1.ws
             ELSE AddBalance(st1.ws, "coinbase", fee)
      ws3 == AddBalance(ws2, "basefee", gasUsed(msg, st1) * env.baseFee)
      cost == L1CostFunc(env, msg)
      ws4 == IF IsNil(cost) THEN ws3 ELSE AddBalance(ws3, "l1fee", Val(cost))
  IN [st1 EXCEPT !.ws = IF IsOptimismBedrock(env) THEN ws4 ELSE ws2]

\* Mutant of depositGasUsed: a system transaction is recorded like any deposit.
depositGasUsed_IgnoresSystemTx(msg) == msg.gas

\* The gas a deposit is recorded as using.
depositGasUsed(msg) == IF msg.isSystemTx THEN 0 ELSE msg.gas

\* ------------------------------------------------------------------------
\* The virtual machine (vm.EVM.Call, vm.EVM.Create)

\* What one run of the VM may do with the gas it is given: succeed or revert
\* having used some of it, or trap and use it all. A run that used gas may
\* have added to the refund counter, by less than the cap of the refund or by
\* more than the run used (storage clears).
VMOutcomes(gas) ==
  { o \in [kind : {"ok", "revert"}, used : {0, 15000}, refund : {0, 4800, 45000}] :
      /\ o.used <= gas
      /\ o.refund > 0 => (o.kind = "ok" /\ o.used > 0)
      /\ o.kind = "revert" => o.used > 0 }
  \cup { [kind |-> "trap", used |-> gas, refund |-> 0] }

VMError(o) ==
  IF o.kind = "ok" THEN NoError
  ELSE IF o.kind = "revert" THEN ErrExecutionReverted ELSE ErrOutOfGas

VMReturnData(o) == IF o.kind = "trap" THEN "nil" ELSE "data"

\* The state a successful run leaves: the value moved to the recipient, some
\* storage written, the refund counter raised. A run that fails undoes its own
\* changes.
VMEffects(ws, caller, addr, value, o) ==
  IF o.kind = "ok"
  THEN [AddBalance(SubBalance(ws, caller, value), addr, value)
          EXCEPT !.storage = @ + 1, !.refund = @ + o.refund]
  ELSE ws

evmCall(ws, caller, addr, value, o) == VMEffects(ws, caller, addr, value, o)

\* Create bumps the creator's nonce before it runs the init code.
evmCreate(ws, caller, value, o) ==
  VMEffects(SetNonce(ws, caller, Wrap64(GetNonce(ws, caller) + 1)),
            caller, "created", value, o)

\* ------------------------------------------------------------------------
\* The blocks and messages the engine is run on

Addresses == {"alice", "carol", "bob", "created", "coinbase", "basefee", "l1fee"}

Forks == {"Istanbul", "London", "Shanghai", "Sharding"}

\* A block's rules and context. The rollup surcharge calls the L1-cost
\* function without a nil check, so a Bedrock block has one; the excess data
\* gas is only looked at once sharding is active. Simulation contexts (base-fee
\* enforcement off) are taken before sharding, and with the fee fields that
\* tell them apart. What the pricing function makes of a nil excess data gas
\* is the build's: it panics (nil), or returns some price (taken in the
\* contexts without an L1-cost function).
Envs ==
  { e \in [fork : Forks, noBaseFee : BOOLEAN, l1CostFunc : BOOLEAN,
           bedrock : BOOLEAN, excessDataGas : {None, Some(0), Some(1)},
           dataGasPriceOfNil : {None, Some(0), Some(2)}, baseFee : {2}] :
      /\ e.bedrock => (e.l1CostFunc /\ IsLondon(e))
      /\ ~IsSharding(e) => e.excessDataGas = None
      /\ ~(IsSharding(e) /\ IsNil(e.excessDataGas) /\ ~e.l1CostFunc)
           => e.dataGasPriceOfNil = None
      /\ IsSharding(e) => ~e.noBaseFee }

\* Payloads as byte counts: none, a few bytes, init code one byte over the
\* limit, and one whose cost cannot be held in a word.
EmptyData == [nz |-> 0, z |-> 0]

SmallData == [nz |-> 2, z |-> 1]

BigInitData == [nz |-> 0, z |-> MaxInitCodeSize + 1]

OverflowData == [nz |-> MaxUint64 \div TxDataNonZeroGasEIP2028, z |-> 0]

Payloads ==
  { [data |-> EmptyData, accessList |-> None],
    [data |-> SmallData, accessList |-> Some([addresses |-> 1, keys |-> 2])],
    [data |-> BigInitData, accessList |-> None],
    [data |-> OverflowData, accessList |-> None] }

Fee(cap, tip, price) == [cap |-> cap, tip |-> tip, price |-> price]

\* Fee fields: a legacy message carries its price as both caps, or no caps at
\* all when it is built by hand before London (with London active, or with
\* base-fee enforcement off, the engine dereferences the caps).
FeeShapes(env) ==
  IF ~IsLondon(env)
  THEN { Fee(Some(3), Some(3), 3) }
       \cup (IF env.noBaseFee THEN {} ELSE { Fee(None, None, 3) })
  ELSE { Fee(Some(3), Some(1), 3), Fee(Some(0), Some(0), 0) }
       \cup (IF env.noBaseFee THEN {}
             ELSE { Fee(Some(3), Some(3), 3), Fee(Some(4), Some(1), 3),
                    Fee(Some(1), Some(1), 1), Fee(Some(1), Some(2), 1) })

GasLimits == {20000, 21000, 300000}

Values == {0, 1500000}

\* Messages that are not deposits, sent by the account alice.
StandardMsgs(env) ==
  { [from |-> "alice", to |-> t, gasPrice |-> f.price, gasFeeCap |-> f.cap,
     gasTipCap |-> f.tip, maxFeePerDataGas |-> Some(1), gas |-> g,
     dataHashes |-> h, value |-> v, nonce |-> 1, isFake |-> FALSE,
     isSystemTx |-> FALSE, isDepositTx |-> FALSE, mint |-> None,
     rollupDataGas |-> r, data |-> p.data, accessList |-> p.accessList] :
       t \in {None, Some("bob")}, f \in FeeShapes(env), g \in GasLimits,
       h \in (IF IsSharding(env) THEN {0, 1} ELSE {0}),
       v \in Values, r \in (IF env.l1CostFunc THEN {0, 7} ELSE {0}),
       p \in Payloads }

\* The plain transfer, from which the messages with a wrong nonce, the
\* simulation messages and the messages of an account with code are made.
PlainMsgs(env) ==
  { m \in StandardMsgs(env) :
      /\ m.to = Some("bob") /\ m.gas = 300000 /\ m.value = 0
      /\ m.dataHashes = 0 /\ m.rollupDataGas = 0 /\ m.data = EmptyData }

VariantMsgs(env) ==
  { [m EXCEPT !.from = a, !.nonce = n, !.isFake = k] :
       m \in PlainMsgs(env), a \in {"alice", "carol"}, n \in {0, 1, 2},
       k \in BOOLEAN }

\* Deposits: no fee fields, the fixed gas allowance, an optional mint.
DepositMsgs ==
  { [from |-> "alice", to |-> t, gasPrice |-> 0, gasFeeCap |-> Some(0),
     gasTipCap |-> Some(0), maxFeePerDataGas |-> None, gas |-> DepositGas,
     dataHashes |-> 0, value |-> v, nonce |-> MaxUint64, isFake |-> FALSE,
     isSystemTx |-> s, isDepositTx |-> TRUE, mint |-> mt,
     rollupDataGas |-> 0, data |-> p.data, accessList |-> None] :
       t \in {None, Some("bob")}, v \in Values, s \in BOOLEAN,
       mt \in {None, Some(4)}, p \in Payloads }

Msgs(env) == StandardMsgs(env) \cup VariantMsgs(env) \cup DepositMsgs

\* The world states and pools a transition may start from.
WorldStates ==
  { [balance |-> [a \in Addresses |-> IF a \in {"alice", "carol"} THEN b ELSE 0],
     nonce |-> [a \in Addresses |-> IF a \in {"alice", "carol"} THEN 1 ELSE 0],
     codeHash |-> [a \in Addresses |->
                     IF a = "alice" THEN "empty" ELSE IF a = "carol" THEN "code" ELSE "zero"],
     refund |-> 0, storage |-> 0] : b \in {100000, 2000000} }

GasPools(env) ==
  [gas : {30000, DepositGas + 400000},
   dataGas : IF IsSharding(env) THEN {0, 2 * DataGasPerBlob} ELSE {0}]

\* ------------------------------------------------------------------------
\* One call of TransitionDb

VARIABLES
  env,           \* the block's rules and VM context
  msg,           \* st.msg
  ws,            \* st.state, the world state
  gp,            \* st.gp, the block's gas pool
  gasRemaining,  \* st.gasRemaining
  snap,          \* the snapshot TransitionDb takes after the mint
  pre,           \* the world state and the pool when TransitionDb was called
  pc,            \* where the call stands
  result,        \* the *ExecutionResult returned, nil or one result
  err,           \* the error returned
  hist           \* what the call went through: how the VM run ended, the gas
                 \* used before the refund, the refund given, the error
                 \* innerTransitionDb returned

vars == << env, msg, ws, gp, gasRemaining, snap, pre, pc, result, err, hist >>

StateTransition == [ws |-> ws, gp |-> gp, gasRemaining |-> gasRemaining]

contractCreation(m) == IsNil(m.to)

\* The intrinsic gas innerTransitionDb asks for.
intrinsicGasOf(e, m) ==
  IntrinsicGas(m.data, m.accessList, contractCreation(m),
               IsHomestead(e), IsIstanbul(e), IsShanghai(e))

\* Mutant of innerChecks: the intrinsic gas is checked but not charged.
innerChecks_NoCharge(e, m, st) ==
  LET ig == intrinsicGasOf(e, m)
  IN IF ig.err # NoError THEN [st |-> st, err |-> ig.err]
     ELSE IF st.gasRemaining < ig.gas THEN [st |-> st, err |-> ErrIntrinsicGas]
     ELSE IF m.value > 0 /\ ~CanTransfer(st.ws, m.from, m.value)
       THEN [st |-> st, err |-> ErrInsufficientFundsForTransfer]
     ELSE IF IsShanghai(e) /\ contractCreation(m)
             /\ m.data.nz + m.data.z > MaxInitCodeSize
       THEN [st |-> st, err |-> ErrMaxInitCodeSizeExceeded]
     ELSE [st |-> st, err |-> NoError]

\* innerTransitionDb between preCheck and the VM: the intrinsic gas, the
\* balance for the transfer, the size of the init code.
innerChecks(e, m, st) ==
  LET ig == intrinsicGasOf(e, m)
      st1 == [st EXCEPT !.gasRemaining = @ - ig.gas]
  IN IF ig.err # NoError THEN [st |-> st, err |-> ig.err]
     ELSE IF st.gasRemaining < ig.gas THEN [st |-> st, err |-> ErrIntrinsicGas]
     ELSE IF m.value > 0 /\ ~CanTransfer(st1.ws, m.from, m.value)
       THEN [st |-> st1, err |-> ErrInsufficientFundsForTransfer]
     ELSE IF IsShanghai(e) /\ contractCreation(m)
             /\ m.data.nz + m.data.z > MaxInitCodeSize
       THEN [st |-> st1, err |-> ErrMaxInitCodeSizeExceeded]
     ELSE [st |-> st1, err |-> NoError]

\* Mutant of runVM: the nonce is not bumped before Call.
runVM_NoNonceBump(m, st, o) ==
  [st EXCEPT
     !.ws = IF contractCreation(m)
            THEN evmCreate(st.ws, m.from, m.value, o)
            ELSE evmCall(st.ws, m.from, to(m), m.value, o),
     !.gasRemaining = @ - o.used]

\* innerTransitionDb, the VM run: Create, or the nonce bump and Call.
runVM(m, st, o) ==
  [st EXCEPT
     !.ws = IF contractCreation(m)
            THEN evmCreate(st.ws, m.from, m.value, o)
            ELSE evmCall(SetNonce(st.ws, m.from, Wrap64(GetNonce(st.ws, m.from) + 1)),
                         m.from, to(m), m.value, o),
     !.gasRemaining = @ - o.used]

\* TransitionDb, the conversion of a failed deposit: back to the snapshot,
\* the nonce bumped, a result in place of the error.
failedDepositState(m, sn) == SetNonce(sn, m.from, Wrap64(GetNonce(sn, m.from) + 1))

\* Mutant of failedDepositResult: the return data of the failed run is kept
\* and the error is not wrapped.
failedDepositResult_Unwrapped(m, e) ==
  [usedGas |-> depositGasUsed(m), err |-> e, ret |-> "data"]

failedDepositResult(m, e) ==
  [usedGas |-> depositGasUsed(m), err |-> FailedDeposit(e), ret |-> "nil"]

\* Mutant of convertsToFailedDeposit: gas-limit-reached is converted too.
convertsToFailedDeposit_AnyError(m, e) == e # NoError /\ m.isDepositTx

\* TransitionDb: the errors of a deposit that become a failed-deposit result.
convertsToFailedDeposit(m, e) ==
  e # NoError /\ e # ErrGasLimitReached /\ m.isDepositTx

Init ==
  /\ env \in Envs
  /\ msg \in Msgs(env)
  /\ ws \in WorldStates
  /\ gp \in GasPools(env)
  /\ gasRemaining = 0
  /\ snap = ws
  /\ pre = [ws |-> ws, gp |-> gp]
  /\ pc = "entry"
  /\ result = None
  /\ err = NoError
  /\ hist = [vm |-> "none", usedBeforeRefund |-> 0, refund |-> 0, innerErr |-> NoError]

\* Mutant of TransitionDbEntry: the snapshot is taken before the mint.
TransitionDbEntry_SnapshotFirst ==
  /\ pc = "entry"
  /\ ws' = IF IsNil(msg.mint) THEN ws ELSE AddBalance(ws, msg.from, Val(msg.mint))
  /\ snap' = ws
  /\ pc' = "preCheck"
  /\ UNCHANGED << env, msg, gp, gasRemaining, pre, result, err, hist >>

\* TransitionDb up to the call of innerTransitionDb: the mint, the snapshot.
TransitionDbEntry ==
  /\ pc = "entry"
  /\ ws' = IF IsNil(msg.mint) THEN ws ELSE AddBalance(ws, msg.from, Val(msg.mint))
  /\ snap' = ws'
  /\ pc' = "preCheck"
  /\ UNCHANGED << env, msg, gp, gasRemaining, pre, result, err, hist >>

\* innerTransitionDb: preCheck, and the return when it fails. A panic in the
\* pricing function unwinds the call: nothing is returned.
InnerPreCheck ==
  /\ pc = "preCheck"
  /\ LET r == preCheck(env, msg, StateTransition)
     IN /\ ws' = r.st.ws
        /\ gp' = r.st.gp
        /\ gasRemaining' = r.st.gasRemaining
        /\ err' = r.err
        /\ pc' = IF r.err = NoError THEN "checks"
                 ELSE IF r.err = Panic THEN "panicked" ELSE "innerReturned"
  /\ UNCHANGED << env, msg, snap, pre, result, hist >>

\* innerTransitionDb: the checks before the VM runs.
InnerChecks ==
  /\ pc = "checks"
  /\ LET r == innerChecks(env, msg, StateTransition)
     IN /\ ws' = r.st.ws
        /\ gp' = r.st.gp
        /\ gasRemaining' = r.st.gasRemaining
        /\ err' = r.err
        /\ pc' = IF r.err = NoError THEN "exec" ELSE "innerReturned"
  /\ UNCHANGED << env, msg, snap, pre, result, hist >>

\* Mutant of InnerExecute: a deposit goes through the settlement of refund and
\* fees like any message.
InnerExecute_NoShortCircuit ==
  /\ pc = "exec"
  /\ \E o \in VMOutcomes(gasRemaining) :
       LET st1 == runVM(msg, StateTransition, o)
           st2 == settleFees(env, msg, st1)
       IN /\ ws' = st2.ws
          /\ gp' = st2.gp
          /\ gasRemaining' = st2.gasRemaining
          /\ result' = Some([usedGas |-> IF msg.isDepositTx THEN depositGasUsed(msg)
                                         ELSE gasUsed(msg, st2),
                             err |-> VMError(o), ret |-> VMReturnData(o)])
          /\ hist' = [hist EXCEPT !.vm = o.kind,
                                   !.usedBeforeRefund = gasUsed(msg, st1),
                                   !.refund = st2.gasRemaining - st1.gasRemaining]
  /\ err' = NoError
  /\ pc' = "innerReturned"
  /\ UNCHANGED << env, msg, snap, pre >>

\* innerTransitionDb: the VM run and what follows it, the deposit's return or
\* the settlement of refund and fees.
InnerExecute ==
  /\ pc = "exec"
  /\ \E o \in VMOutcomes(gasRemaining) :
       LET st1 == runVM(msg, StateTransition, o)
           st2 == IF msg.isDepositTx THEN st1 ELSE settleFees(env, msg, st1)
       IN /\ ws' = st2.ws
          /\ gp' = st2.gp
          /\ gasRemaining' = st2.gasRemaining
          /\ result' = Some([usedGas |-> IF msg.isDepositTx THEN depositGasUsed(msg)
                                         ELSE gasUsed(msg, st2),
                             err |-> VMError(o), ret |-> VMReturnData(o)])
          /\ hist' = [hist EXCEPT !.vm = o.kind,
                                   !.usedBeforeRefund = gasUsed(msg, st1),
                                   !.refund = st2.gasRemaining - st1.gasRemaining]
  /\ err' = NoError
  /\ pc' = "innerReturned"
  /\ UNCHANGED << env, msg, snap, pre >>

\* TransitionDb after innerTransitionDb returned.
TransitionDbReturn ==
  /\ pc = "innerReturned"
  /\ IF convertsToFailedDeposit(msg, err)
     THEN /\ ws' = failedDepositState(msg, snap)
          /\ result' = Some(failedDepositResult(msg, err))
          /\ err' = NoError
     ELSE UNCHANGED << ws, result, err >>
  /\ hist' = [hist EXCEPT !.innerErr = err]
  /\ pc' = "returned"
  /\ UNCHANGED << env, msg, gp, gasRemaining, snap, pre >>

Next ==
  \/ TransitionDbEntry
  \/ InnerPreCheck
  \/ InnerChecks
  \/ InnerExecute
  \/ TransitionDbReturn

Spec == Init /\ [][Next]_vars

\* ------------------------------------------------------------------------
\* The same message applied again to the state a transition left

\* How many times the message is applied.
MaxCalls == 2

\* hist also counts the calls and keeps how the call before this one ended.
InitReplay ==
  /\ env \in Envs
  /\ msg \in { m \in Msgs(env) : ~m.isDepositTx }
  /\ ws \in WorldStates
  /\ gp \in GasPools(env)
  /\ gasRemaining = 0
  /\ snap = ws
  /\ pre = [ws |-> ws, gp |-> gp]
  /\ pc = "entry"
  /\ result = None
  /\ err = NoError
  /\ hist = [vm |-> "none", usedBeforeRefund |-> 0, refund |-> 0,
             innerErr |-> NoError, calls |-> 1, prev |-> None]

\* ApplyMessage once more, with the same message, on the state and the pool
\* the call before left: a new StateTransition, no gas remaining. Between two
\* transactions the caller finalises the world state, which clears the refund
\* counter.
ApplyAgain ==
  /\ pc = "returned"
  /\ hist.calls < MaxCalls
  /\ ws' = [ws EXCEPT !.refund = 0]
  /\ gasRemaining' = 0
  /\ snap' = ws'
  /\ pre' = [ws |-> ws', gp |-> gp]
  /\ pc' = "entry"
  /\ result' = None
  /\ err' = NoError
  /\ hist' = [vm |-> "none", usedBeforeRefund |-> 0, refund |-> 0,
              innerErr |-> NoError, calls |-> hist.calls + 1,
              prev |-> Some([result |-> result, err |-> err, vm |-> hist.vm,
                             nonce |-> GetNonce(ws, msg.from)])]
  /\ UNCHANGED << env, msg, gp >>

NextReplay ==
  \/ TransitionDbEntry
  \/ InnerPreCheck
  \/ InnerChecks
  \/ InnerExecute
  \/ TransitionDbReturn
  \/ ApplyAgain

SpecReplay == InitReplay /\ [][NextReplay]_vars

\* ------------------------------------------------------------------------
\* A block: messages applied one after the other against one gas pool

\* How many messages the block is offered.
MaxTxs == 3

\* The blocks: before and after the fee market and sharding, no rollup cost.
BlockEnvs ==
  { e \in Envs : /\ ~e.noBaseFee
                 /\ ~e.l1CostFunc
                 /\ e.fork \in {"Istanbul", "Sharding"}
                 /\ IsSharding(e) => e.excessDataGas = Some(0) }

\* The messages offered on world state w: transfers of alice with the nonce
\* the state expects, with enough gas or too little, with and without data
\* hashes; one with a stale nonce; a deposit and a system deposit.
BlockMsgs(e, w) ==
  LET transfers == { m \in StandardMsgs(e) :
                       /\ m.to = Some("bob") /\ m.value = 0 /\ m.rollupDataGas = 0
                       /\ m.data = EmptyData /\ m.gas \in {20000, 300000}
                       /\ m.gasFeeCap = Some(3)
                       /\ m.gasTipCap = (IF IsLondon(e) THEN Some(1) ELSE Some(3)) }
      deposits == { d \in DepositMsgs :
                      /\ d.to = Some("bob") /\ d.value = 0
                      /\ d.data = EmptyData /\ d.mint = None }
  IN { [m EXCEPT !.nonce = GetNonce(w, m.from)] : m \in transfers }
     \cup { [m EXCEPT !.nonce = 0] :
              m \in { t \in transfers : t.gas = 300000 /\ t.dataHashes = 0 } }
     \cup deposits

\* The pools: too small for any message, room for one transfer, room for a
\* deposit and a transfer.
BlockGasPools(e) ==
  [gas : {30000, 400000, DepositGas + 400000},
   dataGas : IF IsSharding(e) THEN {0, 2 * DataGasPerBlob} ELSE {0}]

\* hist also keeps the gas the pool started with, the number of messages
\* applied, the gas the results before this call reported, and what kinds of
\* outcome the block has seen.
InitBlock ==
  /\ env \in BlockEnvs
  /\ ws \in { w \in WorldStates : w.balance["alice"] = 2000000 }
  /\ msg \in BlockMsgs(env, ws)
  /\ gp \in BlockGasPools(env)
  /\ gasRemaining = 0
  /\ snap = ws
  /\ pre = [ws |-> ws, gp |-> gp]
  /\ pc = "entry"
  /\ result = None
  /\ err = NoError
  /\ hist = [vm |-> "none", usedBeforeRefund |-> 0, refund |-> 0,
             innerErr |-> NoError, txs |-> 1, initialGas |-> gp.gas,
             usedSum |-> 0, seen |-> {}]

\* How a call that returned ended.
OutcomeKind(m, r) ==
  IF r = None THEN "rejected"
  ELSE IF m.isDepositTx THEN "deposit" ELSE "executed"

\* ApplyMessage with the next message of the block, on the state and the pool
\* the call before left. Between two transactions the caller finalises the
\* world state, which clears the refund counter.
ApplyNext ==
  /\ pc = "returned"
  /\ hist.txs < MaxTxs
  /\ ws' = [ws EXCEPT !.refund = 0]
  /\ msg' \in BlockMsgs(env, ws')
  /\ gasRemaining' = 0
  /\ snap' = ws'
  /\ pre' = [ws |-> ws', gp |-> gp]
  /\ pc' = "entry"
  /\ result' = None
  /\ err' = NoError
  /\ hist' = [vm |-> "none", usedBeforeRefund |-> 0, refund |-> 0,
              innerErr |-> NoError, txs |-> hist.txs + 1,
              initialGas |-> hist.initialGas,
              usedSum |-> hist.usedSum
                          + (IF result = None THEN 0 ELSE Val(result).usedGas),
              seen |-> hist.seen \cup {OutcomeKind(msg, result)}]
  /\ UNCHANGED << env, gp >>

NextBlock ==
  \/ TransitionDbEntry
  \/ InnerPreCheck
  \/ InnerChecks
  \/ InnerExecute
  \/ TransitionDbReturn
  \/ ApplyNext

SpecBlock == InitBlock /\ [][NextBlock]_vars

\* ------------------------------------------------------------------------
\* IntrinsicGas on its own, over payloads and access lists up to the sizes
\* where the sum no longer fits a word

\* The rules under which the intrinsic gas differs.
IntrinsicForks == {"Frontier", "Homestead", "Istanbul", "Shanghai"}

IntrinsicEnvs ==
  [fork : IntrinsicForks, noBaseFee : {FALSE}, l1CostFunc : {FALSE},
   bedrock : {FALSE}, excessDataGas : {None}, dataGasPriceOfNil : {None},
   baseFee : {2}]

\* Counts of non-zero bytes: none, a few, and so many that their cost alone
\* passes the word.
NonZeroCounts == {0, 1, 100, MaxUint64 \div TxDataNonZeroGasFrontier}

\* Counts of zero bytes: none, a few, as many as a creation can pay for before
\* the init-code words are charged, and too many.
ZeroCounts ==
  {0, 31, (MaxUint64 - TxGasContractCreation) \div TxDataZeroGas,
   MaxUint64 \div TxDataZeroGas}

\* The payloads: a byte slice is no longer than a word can count.
IntrinsicData ==
  { d \in [nz : NonZeroCounts, z : ZeroCounts] : d.nz + d.z <= MaxUint64 }

\* Access lists: none, empty, short, and so long that their cost passes the
\* word.
IntrinsicAccessLists ==
  { None } \cup
  { Some(al) : al \in [addresses : {0, 2, MaxUint64 \div TxAccessListAddressGas},
                       keys : {0, 3, MaxUint64 \div TxAccessListStorageKeyGas}] }

IntrinsicMsgs ==
  { [from |-> "alice", to |-> t, gasPrice |-> 3, gasFeeCap |-> Some(3),
     gasTipCap |-> Some(3), maxFeePerDataGas |-> None, gas |-> 300000,
     dataHashes |-> 0, value |-> 0, nonce |-> 1, isFake |-> FALSE,
     isSystemTx |-> FALSE, isDepositTx |-> FALSE, mint |-> None,
     rollupDataGas |-> 0, data |-> d, accessList |-> al] :
       t \in {None, Some("bob")}, d \in IntrinsicData, al \in IntrinsicAccessLists }

InitIntrinsicGas ==
  /\ env \in IntrinsicEnvs
  /\ msg \in IntrinsicMsgs
  /\ ws \in { w \in WorldStates : w.balance["alice"] = 2000000 }
  /\ gp = [gas |-> DepositGas + 400000, dataGas |-> 0]
  /\ gasRemaining = 0
  /\ snap = ws
  /\ pre = [ws |-> ws, gp |-> gp]
  /\ pc = "intrinsic"
  /\ result = None
  /\ err = NoError
  /\ hist = [vm |-> "none", usedBeforeRefund |-> 0, refund |-> 0, innerErr |-> NoError]

\* The call of IntrinsicGas that innerTransitionDb makes; result holds the
\* pair it returns.
IntrinsicGasCall ==
  /\ pc = "intrinsic"
  /\ result' = Some(intrinsicGasOf(env, msg))
  /\ pc' = "intrinsicDone"
  /\ UNCHANGED << env, msg, ws, gp, gasRemaining, snap, pre, err, hist >>

NextIntrinsicGas == IntrinsicGasCall

SpecIntrinsicGas == InitIntrinsicGas /\ [][NextIntrinsicGas]_vars

\* ------------------------------------------------------------------------
\* DepositTx.copy, over a memory of cells: msg holds the transaction, ws the
\* memory, result the copy, pre the memory as copy left it

\* The fields of DepositTx, each a pointer or a slice: nil or a cell.
DepositTxFields == {"ChainID", "To", "Value", "Data", "From"}

\* The cells of the original and the cells copy allocates.
DepositTxs ==
  [ChainID : {None, Some("chainID0")}, To : {None, Some("to0")},
   Value : {None, Some("value0")}, Data : {None, Some("data0")},
   From : {None, Some("from0")}]

Memories ==
  [chainID0 : {0, 10}, to0 : {"bob", "carol"}, value0 : {0, 5},
   data0 : {<< >>, << 1, 2 >>}, from0 : {"alice"},
   chainID1 : {"free"}, value1 : {"free"}, data1 : {"free"}]

\* new(big.Int) followed by Set when the original is not nil.
CopyBigInt(p, mem) == IF IsNil(p) THEN 0 ELSE mem[Val(p)]

\* copy: the copy and the memory after it. To is the original's pointer, From
\* is not assigned, Data is common.CopyBytes (nil for nil, else a new slice).
copy(tx, mem) ==
  [cpy |-> [ChainID |-> Some("chainID1"),
            To |-> tx.To,
            Value |-> Some("value1"),
            Data |-> IF IsNil(tx.Data) THEN None ELSE Some("data1"),
            From |-> None],
   mem |-> [mem EXCEPT !["chainID1"] = CopyBigInt(tx.ChainID, mem),
                       !["value1"] = CopyBigInt(tx.Value, mem),
                       !["data1"] = IF IsNil(tx.Data) THEN @ ELSE mem[Val(tx.Data)]]]

\* What a holder of the copy may write into a field's cell.
NewValues(f) ==
  IF f \in {"ChainID", "Value"} THEN {77}
  ELSE IF f = "Data" THEN {<< 9 >>} ELSE {"mallory"}

InitCopy ==
  /\ env \in { e \in IntrinsicEnvs : e.fork = "Shanghai" }
  /\ msg \in DepositTxs
  /\ ws \in Memories
  /\ gp = [gas |-> 0, dataGas |-> 0]
  /\ gasRemaining = 0
  /\ snap = ws
  /\ pre = ws
  /\ pc = "copy"
  /\ result = None
  /\ err = NoError
  /\ hist = [vm |-> "none", usedBeforeRefund |-> 0, refund |-> 0, innerErr |-> NoError]

CopyCall ==
  /\ pc = "copy"
  /\ result' = Some(copy(msg, ws).cpy)
  /\ ws' = copy(msg, ws).mem
  /\ pre' = ws'
  /\ pc' = "copied"
  /\ UNCHANGED << env, msg, gp, gasRemaining, snap, err, hist >>

\* The holder of the copy writes through one of its fields.
CopyWrite ==
  /\ pc = "copied"
  /\ \E f \in DepositTxFields :
       /\ ~IsNil(Val(result)[f])
       /\ \E v \in NewValues(f) : ws' = [ws EXCEPT ![Val(Val(result)[f])] = v]
  /\ pc' = "written"
  /\ UNCHANGED << env, msg, gp, gasRemaining, snap, pre, result, err, hist >>

\* The holder of the copy sets one of its fields to nil.
CopyAssign ==
  /\ pc = "copied"
  /\ \E f \in DepositTxFields : result' = Some([Val(result) EXCEPT ![f] = None])
  /\ pc' = "written"
  /\ UNCHANGED << env, msg, ws, gp, gasRemaining, snap, pre, err, hist >>

NextCopy ==
  \/ CopyCall
  \/ CopyWrite
  \/ CopyAssign

SpecCopy == InitCopy /\ [][NextCopy]_vars

\* ------------------------------------------------------------------------
\* Properties

Returned == pc = "returned"

Sender == msg.from

MintOf(m) == IF IsNil(m.mint) THEN 0 ELSE Val(m.mint)

\* The world state at the call with the mint credited and the sender's
\* nonce one higher.
MintedAndBumped ==
  [pre.ws EXCEPT !.balance[Sender] = @ + MintOf(msg), !.nonce[Sender] = @ + 1]

DeclaredGas(m) == IF m.isSystemTx THEN 0 ELSE m.gas

\* The inner pipeline of a deposit failed with an error other than
\* gas-limit-reached.
DepositFailedInside ==
  /\ Returned
  /\ msg.isDepositTx
  /\ hist.innerErr # NoError
  /\ hist.innerErr # ErrGasLimitReached

\* The errors buyGas returns.
BuyGasErrors ==
  { ErrInternalFailure, ErrInsufficientFunds, ErrGasLimitReached, ErrDataGasLimitReached }

\* C1: a transition of a message that is not a deposit that returns a
\* consensus error leaves the sender's balance and nonce, the gas pool and the
\* data-gas pool as they were before the call.
C1_ErrorNeverCharges ==
  (Returned /\ ~msg.isDepositTx /\ err # NoError)
    => /\ ws.balance[Sender] = pre.ws.balance[Sender]
       /\ ws.nonce[Sender] = pre.ws.nonce[Sender]
       /\ gp = pre.gp

\* C2: after a deposit whose inner pipeline failed with an error other than
\* gas-limit-reached, the world state is the state before the call with the
\* mint added to the sender's balance and the sender's nonce one higher, and
\* nothing else changed.
C2_FailedDepositState == DepositFailedInside => ws = MintedAndBumped

C2_Witness ==
  /\ DepositFailedInside
  /\ hist.innerErr = ErrInsufficientFundsForTransfer
  /\ ~IsNil(msg.mint)

\* C3: TransitionDb on a deposit returns no error but gas-limit-reached; any
\* other failure of the inner pipeline comes back as a result with a nil
\* error, the declared gas as used gas (0 for a system transaction), no return
\* data, and the original error wrapped as a failed deposit.
C3_DepositErrorsBecomeResults ==
  (Returned /\ msg.isDepositTx)
    => /\ err \in { NoError, ErrGasLimitReached }
       /\ DepositFailedInside
            => /\ err = NoError
               /\ result = Some([usedGas |-> DeclaredGas(msg),
                                 err |-> << "failed deposit" >> \o hist.innerErr,
                                 ret |-> "nil"])

C3_Witness ==
  /\ DepositFailedInside
  /\ hist.innerErr = ErrMaxInitCodeSizeExceeded
  /\ msg.isSystemTx

\* C4 as claimed: every deposit raises the sender's nonce by exactly 1,
\* whether the transition succeeds or fails.
C4_NonceAlwaysBumped ==
  (Returned /\ msg.isDepositTx) => ws.nonce[Sender] = pre.ws.nonce[Sender] + 1

\* C4: every deposit for which TransitionDb returns a result raises the
\* sender's nonce by exactly 1, whether it succeeded or failed; the deposit
\* aborted with gas-limit-reached leaves the nonce as it was.
C4_NonceBumpedUnlessAborted ==
  (Returned /\ msg.isDepositTx)
    => /\ err = NoError => ws.nonce[Sender] = pre.ws.nonce[Sender] + 1
       /\ err # NoError => ws.nonce[Sender] = pre.ws.nonce[Sender]

C4_Witness ==
  /\ Returned
  /\ msg.isDepositTx
  /\ ~contractCreation(msg)
  /\ hist.vm = "ok"
  /\ ws.nonce[Sender] = pre.ws.nonce[Sender] + 1

\* C5 as claimed: a deposit whose VM run reverts comes back with the declared
\* gas as used gas, an error wrapping "failed deposit", the nonce one higher,
\* the state rolled back to the snapshot and the mint kept.
C5_RevertIsFailedDeposit ==
  (Returned /\ msg.isDepositTx /\ hist.vm = "revert")
    => /\ result # None
       /\ Val(result).usedGas = DeclaredGas(msg)
       /\ Head(Val(result).err) = "failed deposit"
       /\ ws = MintedAndBumped

\* C5: a deposit whose VM run reverts comes back with the declared gas as
\* used gas (0 for a system transaction) and the VM's revert error as it is,
\* not wrapped as a failed deposit; the nonce is one higher, the mint is kept
\* and nothing else of the state before the call has changed.
C5_RevertedDepositResult ==
  (Returned /\ msg.isDepositTx /\ hist.vm = "revert")
    => /\ err = NoError
       /\ result # None
       /\ Val(result).usedGas = DeclaredGas(msg)
       /\ Val(result).err = ErrExecutionReverted
       /\ ws = MintedAndBumped

C5_Witness ==
  /\ Returned
  /\ msg.isDepositTx
  /\ hist.vm = "revert"
  /\ msg.isSystemTx
  /\ ~IsNil(msg.mint)

\* C6: when buyGas returns an error, the gas pool, the data-gas pool and the
\* sender's balance are as they were before buyGas was called.
C6_BuyGasAllOrNothing ==
  (pc = "innerReturned" /\ ~msg.isDepositTx /\ err \in BuyGasErrors)
    => /\ gp = pre.gp
       /\ ws.balance[Sender] = snap.balance[Sender]

\* C7 as claimed: a deposit aborted because the gas pool cannot cover its gas
\* limit returns gas-limit-reached and no result, and leaves the sender's
\* balance and nonce and the gas pool as they were before the call.
C7_GasLimitAbortLeavesState ==
  (Returned /\ msg.isDepositTx /\ hist.innerErr = ErrGasLimitReached)
    => /\ err = ErrGasLimitReached
       /\ result = None
       /\ ws.balance[Sender] = pre.ws.balance[Sender]
       /\ ws.nonce[Sender] = pre.ws.nonce[Sender]
       /\ gp = pre.gp

\* C7: a deposit aborted because the gas pool cannot cover its gas limit
\* returns gas-limit-reached and no result, and leaves the gas pool and the
\* world state as they were before the call, but for the mint, which stays
\* credited to the sender.
C7_GasLimitAbortKeepsOnlyMint ==
  (Returned /\ msg.isDepositTx /\ hist.innerErr = ErrGasLimitReached)
    => /\ err = ErrGasLimitReached
       /\ result = None
       /\ ws = [pre.ws EXCEPT !.balance[Sender] = @ + MintOf(msg)]
       /\ gp = pre.gp

C7_Witness ==
  /\ Returned
  /\ msg.isDepositTx
  /\ hist.innerErr = ErrGasLimitReached
  /\ ~IsNil(msg.mint)
  /\ ws.balance[Sender] = pre.ws.balance[Sender] + Val(msg.mint)

HasStandardResult == Returned /\ ~msg.isDepositTx /\ result # None

\* C8 as claimed: the used gas reported for a message that is not a deposit
\* is at least its intrinsic gas, also after the refund.
C8_UsedGasAtLeastIntrinsic ==
  HasStandardResult => Val(result).usedGas >= intrinsicGasOf(env, msg).gas

\* C8: the gas used by a message that is not a deposit is at least its
\* intrinsic gas before the refund; the used gas reported, after the refund,
\* may be less, but not less than the gas used before the refund minus that
\* gas divided by the refund quotient (2 before London, 5 after).
C8_UsedGasBeforeRefund ==
  HasStandardResult
    => /\ hist.usedBeforeRefund >= intrinsicGasOf(env, msg).gas
       /\ Val(result).usedGas >=
            hist.usedBeforeRefund
              - hist.usedBeforeRefund \div (IF IsLondon(env) THEN 5 ELSE 2)

C8_Witness ==
  /\ HasStandardResult
  /\ hist.refund > 0
  /\ Val(result).usedGas < intrinsicGasOf(env, msg).gas

\* C9: the used gas reported for a message that is not a deposit is at most
\* the message's gas limit, the VM returning no more gas than it was given.
C9_UsedGasAtMostLimit == HasStandardResult => Val(result).usedGas <= msg.gas

C9_Witness ==
  /\ HasStandardResult
  /\ hist.refund > 0
  /\ Val(result).usedGas < msg.gas
  /\ IsLondon(env)

\* C10: when preCheck succeeds for a message that is not a deposit, the
\* sender's balance is lower than before preCheck by exactly gas * gasPrice,
\* plus data gas * data-gas price once sharding is active, plus the L1 cost
\* when the L1-cost function gives one; no other balance has changed.
C10_PreCheckDebit ==
  (pc = "checks" /\ ~msg.isDepositTx)
    => /\ ws.balance[Sender] =
            snap.balance[Sender]
              - ( msg.gas * msg.gasPrice
                  + (IF IsSharding(env)
                     THEN msg.dataHashes * DataGasPerBlob
                            * GetDataGasPrice(env.excessDataGas)
                     ELSE 0)
                  + (IF env.l1CostFunc /\ ~IsNil(L1CostFunc(env, msg))
                     THEN Val(L1CostFunc(env, msg)) ELSE 0) )
       /\ \A a \in Addresses \ { Sender } : ws.balance[a] = snap.balance[a]

C10_Witness ==
  /\ pc = "checks"
  /\ ~msg.isDepositTx
  /\ IsSharding(env)
  /\ msg.dataHashes > 0
  /\ env.l1CostFunc
  /\ msg.rollupDataGas > 0
  /\ msg.gasPrice > 0

\* The quotient that caps the refund under the block's rules.
QuotientOf(e) == IF IsLondon(e) THEN RefundQuotientEIP3529 ELSE RefundQuotient

\* C11: the refund that settlement adds to the remaining gas never exceeds the
\* gas used before the refund divided by the refund quotient (2 before
\* London, 5 after), and never exceeds the refund counter of the world state.
C11_RefundCapped ==
  HasStandardResult =>
    /\ hist.refund <= hist.usedBeforeRefund \div QuotientOf(env)
    /\ hist.refund <= GetRefund(ws)
    /\ Val(result).usedGas = hist.usedBeforeRefund - hist.refund

\* A run whose counter is below the cap, so that the counter is what is given.
C11_Witness ==
  /\ HasStandardResult
  /\ hist.refund > 0
  /\ hist.refund = GetRefund(ws)
  /\ GetRefund(ws) < hist.usedBeforeRefund \div QuotientOf(env)

\* The message passes the nonce and EOA checks of preflight: it is a
\* simulation, or its nonce is the sender's and the sender has no code.
PassesSenderChecks ==
  \/ msg.isFake
  \/ /\ pre.ws.nonce[Sender] = msg.nonce
     /\ msg.nonce < MaxUint64
     /\ pre.ws.codeHash[Sender] \in {"empty", "zero"}

\* With London active, a message that is not a deposit offers less than the
\* block's base fee.
FeeCapBelowBaseFee ==
  /\ IsLondon(env)
  /\ ~msg.isDepositTx
  /\ Val(msg.gasFeeCap) < env.baseFee

\* The fee-market checks are made: base-fee enforcement is on, or one of the
\* fee fields is not zero.
FeeChecksApply ==
  ~env.noBaseFee \/ Val(msg.gasFeeCap) > 0 \/ Val(msg.gasTipCap) > 0

NothingChanged == ws = pre.ws /\ gp = pre.gp

\* C12 as claimed: with London active, every message that is not a deposit
\* and whose fee cap is below the base fee is rejected with fee-cap-too-low,
\* the sender's balance and the gas pool unchanged.
C12_LowFeeCapAlwaysTooLow ==
  (Returned /\ FeeCapBelowBaseFee)
    => /\ err = ErrFeeCapTooLow
       /\ ws.balance[Sender] = pre.ws.balance[Sender]
       /\ gp = pre.gp

\* C12: with London active, a message that is not a deposit, whose fee cap is
\* below the base fee and for which the fee-market checks are made, is
\* rejected in preflight with the world state and the pool unchanged; the
\* error is fee-cap-too-low when the message passes the nonce and EOA checks
\* and its tip cap is not above its fee cap, and is the error of the earlier
\* check otherwise.
C12_LowFeeCapRejected ==
  (Returned /\ FeeCapBelowBaseFee /\ FeeChecksApply)
    => /\ result = None
       /\ NothingChanged
       /\ err \in {ErrNonceTooHigh, ErrNonceTooLow, ErrNonceMax, ErrSenderNoEOA,
                   ErrTipAboveFeeCap, ErrFeeCapTooLow}
       /\ (PassesSenderChecks /\ Val(msg.gasTipCap) <= Val(msg.gasFeeCap))
            => err = ErrFeeCapTooLow

C12_Witness ==
  /\ Returned
  /\ FeeCapBelowBaseFee
  /\ FeeChecksApply
  /\ err = ErrFeeCapTooLow
  /\ pre.ws.balance[Sender] >= msg.gas * Val(msg.gasFeeCap)

SystemDeposit == msg.isDepositTx /\ msg.isSystemTx

\* C13: a system deposit never changes the block's gas pool, at any step of
\* the transition; it never yields a consensus error, and its result reports
\* zero gas used, whether the execution succeeds or fails.
C13_SystemDepositFree ==
  SystemDeposit
    => /\ gp = pre.gp
       /\ Returned => /\ err = NoError
                       /\ result # None
                       /\ Val(result).usedGas = 0

\* A system deposit that failed before the VM ran, under a pool that holds
\* less than the gas the deposit declares.
C13_Witness ==
  /\ Returned
  /\ SystemDeposit
  /\ hist.innerErr # NoError
  /\ pre.gp.gas < msg.gas
  /\ result # None

FeeRecipients == {"coinbase", "basefee", "l1fee"}

\* C14: for a deposit the engine never credits the coinbase, the base-fee
\* recipient or the L1-fee recipient, never returns gas to the pool (the pool
\* is as before the call, or lower by the declared gas), and never debits or
\* refunds the sender for gas: the sender's balance after the call is the
\* balance before plus the mint, less the value the VM moved in a run that
\* succeeded.
C14_DepositsPayNoFees ==
  msg.isDepositTx
    => /\ \A a \in FeeRecipients : ws.balance[a] = pre.ws.balance[a]
       /\ gp.dataGas = pre.gp.dataGas
       /\ gp.gas \in {pre.gp.gas, pre.gp.gas - msg.gas}
       /\ Returned =>
            /\ gp.gas = pre.gp.gas
                         - (IF msg.isSystemTx \/ hist.innerErr = ErrGasLimitReached
                            THEN 0 ELSE msg.gas)
            /\ ws.balance[Sender] = pre.ws.balance[Sender] + MintOf(msg)
                                    - (IF hist.vm = "ok" THEN msg.value ELSE 0)

\* A deposit that ran to success in a Bedrock block, where a message that is
\* not a deposit pays the three recipients.
C14_Witness ==
  /\ Returned
  /\ msg.isDepositTx
  /\ ~msg.isSystemTx
  /\ env.bedrock
  /\ hist.vm = "ok"
  /\ ~IsNil(msg.mint)
  /\ msg.value > 0
  /\ gp.gas = pre.gp.gas - msg.gas

SmallerOf(a, b) == IF a < b THEN a ELSE b

\* The tip per gas the coinbase is owed under the block's rules.
TipOwed ==
  IF IsLondon(env)
  THEN SmallerOf(Val(msg.gasTipCap), Val(msg.gasFeeCap) - env.baseFee)
  ELSE msg.gasPrice

\* C18: settlement of a message that is not a deposit credits the coinbase
\* with exactly the gas used after the refund times the effective tip (the
\* gas price before London, the smaller of the tip cap and the fee cap less
\* the base fee after it), and with nothing when base-fee enforcement is off
\* and both fee fields are zero.
C18_CoinbaseCredit ==
  HasStandardResult =>
    ws.balance["coinbase"] - pre.ws.balance["coinbase"]
      = IF env.noBaseFee /\ Val(msg.gasFeeCap) = 0 /\ Val(msg.gasTipCap) = 0
        THEN 0
        ELSE Val(result).usedGas * TipOwed

\* A settlement after London where the base fee leaves less than the tip cap,
\* after a refund.
C18_Witness ==
  /\ HasStandardResult
  /\ IsLondon(env)
  /\ Val(msg.gasFeeCap) - env.baseFee < Val(msg.gasTipCap)
  /\ hist.refund > 0
  /\ ws.balance["coinbase"] > pre.ws.balance["coinbase"]

SenderHasCode == pre.ws.codeHash[Sender] \notin {"empty", "zero"}

SenderErrors == {ErrNonceTooHigh, ErrNonceTooLow, ErrNonceMax, ErrSenderNoEOA}

\* C19 as claimed: a message that is neither a deposit nor fake and whose
\* sender has code is rejected as a non-EOA sender, nothing bought.
C19_CodeSenderIsNoEOA ==
  (Returned /\ ~msg.isDepositTx /\ ~msg.isFake /\ SenderHasCode)
    => err = ErrSenderNoEOA /\ result = None /\ NothingChanged

\* C19: a message that is neither a deposit nor fake and whose sender has
\* code is rejected in preflight before any gas is bought: as a non-EOA sender
\* when its nonce is the sender's, and with the nonce error otherwise. A fake
\* message is never rejected by the nonce and EOA checks, and is still
\* rejected by the fee-market checks and by the balance check of the gas
\* purchase.
C19_CodeSenderRejected ==
  (Returned /\ ~msg.isDepositTx)
    => /\ (~msg.isFake /\ SenderHasCode)
            => /\ err \in {ErrNonceTooHigh, ErrNonceTooLow, ErrNonceMax, ErrSenderNoEOA}
               /\ (pre.ws.nonce[Sender] = msg.nonce /\ msg.nonce < MaxUint64)
                    => err = ErrSenderNoEOA
               /\ result = None
               /\ NothingChanged
       /\ msg.isFake
            => /\ err \notin SenderErrors
               /\ preCheckFees(env, msg) # NoError => err = preCheckFees(env, msg)
               /\ (/\ preCheckFees(env, msg) = NoError
                   /\ preCheckDataGas(env, msg) = NoError
                   /\ ~(IsSharding(env) /\ IsNil(env.excessDataGas))
                   /\ pre.ws.balance[Sender] < balanceRequired(env, msg))
                    => err = ErrInsufficientFunds

C19_Witness ==
  /\ Returned
  /\ ~msg.isDepositTx
  /\ ~msg.isFake
  /\ SenderHasCode
  /\ err = ErrSenderNoEOA
  /\ pre.ws.balance[Sender] >= balanceRequired(env, msg)
  /\ pre.gp.gas >= msg.gas

\* C20: whenever the transition returns a result, the block's gas pool after
\* the call is the pool before the call less the gas the result reports as
\* used.
C20_PoolLessUsedGas ==
  (Returned /\ result # None)
    => gp.gas = pre.gp.gas - Val(result).usedGas

\* A message that is not a deposit, with gas left over and a refund given.
C20_Witness ==
  /\ HasStandardResult
  /\ hist.refund > 0
  /\ Val(result).usedGas < msg.gas
  /\ gp.gas = pre.gp.gas - Val(result).usedGas

IntrinsicDone == pc = "intrinsicDone"

AccessListCount(al, field) == IF IsNil(al) THEN 0 ELSE Val(al)[field]

\* The intrinsic gas of the message as a sum of integers, no word in sight.
ExactIntrinsicGas ==
  LET creation == IsNil(msg.to)
      len == msg.data.nz + msg.data.z
  IN (IF creation /\ ForkRank[env.fork] >= ForkRank.Homestead
      THEN TxGasContractCreation ELSE TxGas)
     + msg.data.z * TxDataZeroGas
     + msg.data.nz * (IF ForkRank[env.fork] >= ForkRank.Istanbul
                      THEN TxDataNonZeroGasEIP2028 ELSE TxDataNonZeroGasFrontier)
     + (IF creation /\ ForkRank[env.fork] >= ForkRank.Shanghai
        THEN ((len + 31) \div 32) * InitCodeWordGas ELSE 0)
     + AccessListCount(msg.accessList, "addresses") * TxAccessListAddressGas
     + AccessListCount(msg.accessList, "keys") * TxAccessListStorageKeyGas

\* C15: IntrinsicGas never returns a wrapped value: it returns the exact sum
\* of the base cost, the per-byte costs, the init-code word cost and the
\* access-list costs, or the overflow error when that sum does not fit a
\* word.
C15_IntrinsicGasNeverWraps ==
  IntrinsicDone =>
    IF ExactIntrinsicGas <= MaxUint64
    THEN Val(result) = [gas |-> ExactIntrinsicGas, err |-> NoError]
    ELSE Val(result).err = ErrGasUintOverflow

\* C16: when the exact sum fits a word, IntrinsicGas returns it: the base
\* cost (of a creation only under Homestead), the zero and non-zero bytes at
\* their rates, the init-code words of a creation under Shanghai, and the
\* addresses and storage keys of the access list.
C16_IntrinsicGasExact ==
  (IntrinsicDone /\ ExactIntrinsicGas <= MaxUint64)
    => Val(result) = [gas |-> ExactIntrinsicGas, err |-> NoError]

\* A creation under Shanghai with both kinds of bytes, a last word that is
\* not full, and an access list with addresses and keys.
C16_Witness ==
  /\ IntrinsicDone
  /\ IsNil(msg.to)
  /\ env.fork = "Shanghai"
  /\ msg.data.nz > 0
  /\ msg.data.z > 0
  /\ (msg.data.nz + msg.data.z) % 32 # 0
  /\ AccessListCount(msg.accessList, "addresses") > 0
  /\ AccessListCount(msg.accessList, "keys") > 0
  /\ Val(result).err = NoError
  /\ Val(result).gas > TxGasContractCreation

\* A message the nonce check applies to.
NonceChecked == ~msg.isDepositTx /\ ~msg.isFake

\* This call applies the message again after a call that executed it.
ReplayOfExecuted ==
  /\ hist.calls > 1
  /\ Val(hist.prev).result # None

\* C17: a message that is neither fake nor a deposit is accepted only if its
\* nonce is the sender's; once a call message was executed the sender's nonce
\* is the message's plus one, even if the VM run reverted or trapped; and the
\* same message applied again to the resulting state is rejected with
\* nonce-too-low, with no result and nothing changed.
C17_ReplayRejected ==
  (Returned /\ NonceChecked)
    => /\ pre.ws.nonce[Sender] # msg.nonce
            => /\ result = None
               /\ err = (IF pre.ws.nonce[Sender] < msg.nonce
                         THEN ErrNonceTooHigh ELSE ErrNonceTooLow)
       /\ (result # None /\ ~IsNil(msg.to))
            => ws.nonce[Sender] = msg.nonce + 1
       /\ (ReplayOfExecuted /\ ~IsNil(msg.to))
            => /\ err = ErrNonceTooLow
               /\ result = None
               /\ NothingChanged

\* The message applied again after a call whose VM run reverted.
C17_Witness ==
  /\ Returned
  /\ NonceChecked
  /\ ~IsNil(msg.to)
  /\ ReplayOfExecuted
  /\ Val(hist.prev).vm = "revert"
  /\ Val(hist.prev).nonce = msg.nonce + 1
  /\ err = ErrNonceTooLow

\* Sharding is active and the context carries no excess data gas.
NoExcessDataGas == IsSharding(env) /\ IsNil(env.excessDataGas)

Panicked == pc = "panicked"

\* C21 as claimed: with sharding active and no excess data gas, every message
\* that is not a deposit is rejected with the internal-failure error, the
\* world state and both pools unchanged.
C21_NoExcessAlwaysInternalFailure ==
  (Returned /\ NoExcessDataGas /\ ~msg.isDepositTx)
    => err = ErrInternalFailure /\ result = None /\ NothingChanged

\* C21: with sharding active and no excess data gas, no message that is not a
\* deposit gets past preflight, and the world state and both pools stay as
\* they were; a message without data hashes that passes the nonce, EOA and
\* fee-market checks is rejected with the internal-failure error, a message
\* that fails one of these with that check's error, and for a message with
\* data hashes the pricing function is called on the nil value first: the
\* call panics, or its price is compared with the message's maximum.
C21_NoExcessRejected ==
  (NoExcessDataGas /\ ~msg.isDepositTx)
    => /\ pc \notin {"checks", "exec"}
       /\ NothingChanged
       /\ result = None
       /\ Returned => err # NoError
       /\ (Returned /\ PassesSenderChecks /\ preCheckFees(env, msg) = NoError)
            => IF msg.dataHashes = 0 THEN err = ErrInternalFailure
               ELSE err = (IF Val(env.dataGasPriceOfNil) > Val(msg.maxFeePerDataGas)
                           THEN ErrMaxFeePerDataGas ELSE ErrInternalFailure)
       /\ Panicked => (msg.dataHashes > 0 /\ IsNil(env.dataGasPriceOfNil))

\* A message that could pay for its gas, under a pool that holds it.
C21_Witness ==
  /\ Returned
  /\ NoExcessDataGas
  /\ ~msg.isDepositTx
  /\ msg.dataHashes = 0
  /\ err = ErrInternalFailure
  /\ pre.ws.balance[Sender] >= msg.gas * Val(msg.gasFeeCap) + msg.value + msg.rollupDataGas
  /\ pre.gp.gas >= msg.gas

\* What a field of a transaction reads as: the content of its cell, and for
\* a nil field the value copy initialises it to.
FieldValue(tx, f, mem) ==
  IF ~IsNil(tx[f]) THEN mem[Val(tx[f])]
  ELSE IF f \in {"ChainID", "Value"} THEN 0
  ELSE IF f = "Data" THEN << >> ELSE "nil"

\* C22: the copy DepositTx.copy returns reads the same as the original in
\* ChainID, To, Value, Data and From, and nothing written through the copy's
\* fields, or assigned to them, changes what the original reads as.
C22_CopyIsDeep ==
  /\ pc = "copied"
       => \A f \in DepositTxFields :
            FieldValue(Val(result), f, ws) = FieldValue(msg, f, ws)
  /\ pc = "written"
       => \A f \in DepositTxFields :
            FieldValue(msg, f, ws) = FieldValue(msg, f, pre)

\* The gas reported as used by every result the block has returned so far.
TotalUsedGas ==
  hist.usedSum + (IF Returned /\ result # None THEN Val(result).usedGas ELSE 0)

\* C23: over a block of messages applied one after the other against one gas
\* pool, accepted, rejected and deposits mixed, the gas left in the pool is
\* never negative and never more than the pool started with, and the gas
\* the results report as used adds up to no more than the pool started with
\* (to no more than what the pool has lost).
C23_PoolBounds ==
  /\ gp.gas >= 0
  /\ gp.gas <= hist.initialGas
  /\ TotalUsedGas <= hist.initialGas
  /\ Returned => TotalUsedGas <= hist.initialGas - gp.gas

\* A block where a message was rejected, a deposit took its gas, and a
\* transfer was then executed and gave gas back.
C23_Witness ==
  /\ Returned
  /\ hist.seen = {"rejected", "deposit"}
  /\ ~msg.isDepositTx
  /\ result # None
  /\ Val(result).usedGas < msg.gas
  /\ TotalUsedGas > DepositGas
  /\ gp.gas < hist.initialGas

\* The gas has just been bought: preCheck of a message that is not a deposit
\* succeeded and nothing else has run.
GasBought == pc = "checks" /\ ~msg.isDepositTx

\* What the context charges for the message's rollup data, if anything.
L1CostOwed == IF env.l1CostFunc THEN msg.rollupDataGas ELSE 0

\* What the message's data gas costs, once sharding is active.
DataCostOwed ==
  IF IsSharding(env)
  THEN (1 + Val(env.excessDataGas)) * msg.dataHashes * DataGasPerBlob
  ELSE 0

\* The balance buyGas asks the sender to hold.
CheckedBalance ==
  IF IsNil(msg.gasFeeCap) THEN msg.gas * msg.gasPrice + L1CostOwed
  ELSE msg.value + DataCostOwed + msg.gas * Val(msg.gasFeeCap) + L1CostOwed

SenderPaid == pre.ws.balance[Sender] - ws.balance[Sender]

\* C24: whenever buyGas succeeds for a message whose gas price is not above
\* its fee cap, what it debits (gas limit times gas price, plus the L1 cost,
\* plus the data-gas cost) is no more than the balance it checked, which the
\* sender held: the balance is not negative after the purchase, in the branch
\* without a fee cap and in the branch with one.
C24_DebitWithinBalance ==
  (GasBought /\ (IsNil(msg.gasFeeCap) \/ msg.gasPrice <= Val(msg.gasFeeCap)))
    => /\ SenderPaid = msg.gas * msg.gasPrice + L1CostOwed + DataCostOwed
       /\ SenderPaid <= CheckedBalance
       /\ CheckedBalance <= pre.ws.balance[Sender]
       /\ ws.balance[Sender] >= 0

\* A purchase in the branch without a fee cap.
C24_Witness ==
  /\ GasBought
  /\ IsNil(msg.gasFeeCap)
  /\ SenderPaid > 0
  /\ SenderPaid = CheckedBalance

\* A message that is not a deposit was executed under the rollup rules, with
\* base-fee enforcement on and the gas price the fee market sets.
RollupSettled ==
  /\ HasStandardResult
  /\ IsLondon(env)
  /\ env.bedrock
  /\ ~env.noBaseFee
  /\ msg.gasPrice = SmallerOf(Val(msg.gasFeeCap), env.baseFee + Val(msg.gasTipCap))

\* The value the VM run moved from the sender.
ValueMoved == IF hist.vm = "ok" THEN msg.value ELSE 0

RecipientsGot ==
  (ws.balance["coinbase"] - pre.ws.balance["coinbase"])
  + (ws.balance["basefee"] - pre.ws.balance["basefee"])
  + (ws.balance["l1fee"] - pre.ws.balance["l1fee"])

\* C25: under the rollup rules, what the coinbase, the base-fee recipient and
\* the L1-fee recipient are credited adds up to what the sender paid for gas,
\* purchase less refund, the data-gas cost left out: used gas times the
\* effective tip, used gas times the base fee, and the L1 cost.
C25_FeesConserved ==
  RollupSettled
    => /\ RecipientsGot = SenderPaid - ValueMoved - DataCostOwed
       /\ ws.balance["coinbase"] - pre.ws.balance["coinbase"]
            = Val(result).usedGas * TipOwed
       /\ ws.balance["basefee"] - pre.ws.balance["basefee"]
            = Val(result).usedGas * env.baseFee
       /\ ws.balance["l1fee"] - pre.ws.balance["l1fee"] = L1CostOwed

\* A settlement with an L1 cost, a refund and a data-gas cost.
C25_Witness ==
  /\ RollupSettled
  /\ L1CostOwed > 0
  /\ hist.refund > 0
  /\ DataCostOwed > 0
  /\ RecipientsGot > 0

====
